---- MODULE Spec2Model ----
(***************************************************************************)
(* dotgain: staking-reward CSV -> tax report.                              *)
(*                                                                         *)
(* The model follows main() of src/main.rs: read_input, filter_range,      *)
(* process (one blocking price request per entry through                   *)
(* PriceClient::price of src/price.rs), calculate_totals, write_output.    *)
(*                                                                         *)
(* Text is modelled by its parsed shape:                                   *)
(*   - a date/time string is the sequence of its numeric fields,           *)
(*     <<day, hour, minute, second>>, <<day, hour, minute>> or <<day>>,    *)
(*     where day counts calendar days from 1970-01-01 (negative before);   *)
(*     any other shape is a string no format accepts;                      *)
(*   - a decimal string is <<mantissa, scale>> ("1.50" is <<150, 2>>);     *)
(*     <<>> is a string that is not a number;                              *)
(*   - a JSON value is a record [t, n, s] with t its JSON type, n an       *)
(*     integer's value and s a string's (or a float's) text.               *)
(***************************************************************************)
EXTENDS Integers, Sequences, FiniteSets, TLC

\* ------------------------------------------------------------------ bounds

\* Longest input file, in data rows.
MaxRows == 2
\* Fractional digits a Decimal quotient may carry (rust_decimal: 28).
DivDigits == 4

\* ------------------------------------------------------- program constants

KLINE_FIELDS_NUM == 12
AVG_PRICE_MIN_DECIMALS == 8
SecondsPerMinute == 60
SecondsPerHour == 60 * SecondsPerMinute
SecondsPerDay == 24 * SecondsPerHour
MsPerSecond == 1000
MsPerMinute == 60000
SYMBOL == "DOTEUR"

DATE_COLUMN == "Date"
VALUE_COLUMN == "Value"
FIAT_GAIN_COLUMN == "Fiat gain"
TOTAL_ROW == "TOTAL"

\* ----------------------------------------------------------------- helpers

Abs(x) == IF x < 0 THEN -x ELSE x

Max(a, b) == IF a >= b THEN a ELSE b

RECURSIVE Pow10(_)
Pow10(n) == IF n <= 0 THEN 1 ELSE 10 * Pow10(n - 1)

\* Rust's integer division on i64: the quotient is truncated toward zero.
TruncDiv(a, b) ==
    IF a >= 0 THEN a \div b ELSE -((-a) \div b)

\* ------------------------------------------------------------- date / time

\* NaiveDateTime::parse_from_str(s, "%Y-%m-%d %H:%M:%S")
ParseYmdHms(s) ==
    IF Len(s) = 4 /\ s[2] \in 0..23 /\ s[3] \in 0..59 /\ s[4] \in 0..59
    THEN [ok |-> TRUE,
          ts |-> s[1] * SecondsPerDay + s[2] * SecondsPerHour
                   + s[3] * SecondsPerMinute + s[4]]
    ELSE [ok |-> FALSE, ts |-> 0]

\* NaiveDateTime::parse_from_str(s, "%Y-%m-%d %H:%M")
ParseYmdHm(s) ==
    IF Len(s) = 3 /\ s[2] \in 0..23 /\ s[3] \in 0..59
    THEN [ok |-> TRUE,
          ts |-> s[1] * SecondsPerDay + s[2] * SecondsPerHour
                   + s[3] * SecondsPerMinute]
    ELSE [ok |-> FALSE, ts |-> 0]

\* NaiveDate::parse_from_str(s, "%Y-%m-%d") followed by and_hms_opt(0, 0, 0)
ParseYmd(s) ==
    IF Len(s) = 1
    THEN [ok |-> TRUE, ts |-> s[1] * SecondsPerDay]
    ELSE [ok |-> FALSE, ts |-> 0]

\* The three formats, tried in order; the first that matches wins.
datetime_from_utc_string(s) ==
    IF ParseYmdHms(s).ok THEN ParseYmdHms(s)
    ELSE IF ParseYmdHm(s).ok THEN ParseYmdHm(s)
    ELSE IF ParseYmd(s).ok THEN ParseYmd(s)
    ELSE [ok |-> FALSE, ts |-> 0]

\* NaiveDateTime::format("%Y-%m-%d %H:%M:%S"): always all four fields.
into_human(ts) ==
    LET day == ts \div SecondsPerDay
        sod == ts % SecondsPerDay
    IN  << day,
           sod \div SecondsPerHour,
           (sod % SecondsPerHour) \div SecondsPerMinute,
           sod % SecondsPerMinute >>

\* ----------------------------------------------------------------- Decimal

Dec(m, e) == [m |-> m, e |-> e]

DecZero == Dec(0, 0)

\* Decimal::from_str_exact: the mantissa and the scale as written.
from_str_exact(s) ==
    IF Len(s) = 2 /\ s[2] >= 0
    THEN [ok |-> TRUE, d |-> Dec(s[1], s[2])]
    ELSE [ok |-> FALSE, d |-> DecZero]

\* Decimal + Decimal: the operands are brought to the larger scale.
DecAdd(a, b) ==
    LET e == Max(a.e, b.e)
    IN  Dec(a.m * Pow10(e - a.e) + b.m * Pow10(e - b.e), e)

\* Decimal * Decimal: mantissas multiply, scales add.
DecMul(a, b) == Dec(a.m * b.m, a.e + b.e)

DecIsZero(a) == a.m = 0

\* Long division of n by d (both >= 0, d > 0): digits are produced until the
\* remainder is zero or the quotient carries DivDigits fractional digits; the
\* last digit is then rounded to nearest, ties to even.
RECURSIVE DivLoop(_, _, _, _)
DivLoop(q, r, d, s) ==
    IF r = 0 THEN Dec(q, s)
    ELSE IF s >= DivDigits
         THEN IF 2 * r > d \/ (2 * r = d /\ q % 2 = 1)
              THEN Dec(q + 1, s)
              ELSE Dec(q, s)
         ELSE DivLoop(q * 10 + (r * 10) \div d, (r * 10) % d, d, s + 1)

\* Decimal / Decimal, divisor non-zero.
DecDiv(a, b) ==
    LET s0   == a.e - b.e
        n    == Abs(a.m) * (IF s0 < 0 THEN Pow10(-s0) ELSE 1)
        d    == Abs(b.m)
        s    == IF s0 < 0 THEN 0 ELSE s0
        sign == IF (a.m < 0) = (b.m < 0) THEN 1 ELSE -1
        res  == DivLoop(n \div d, n % d, d, s)
    IN  Dec(sign * res.m, res.e)

\* Decimal::normalize: trailing zeros of the fraction are stripped.
RECURSIVE normalize(_)
normalize(a) ==
    IF a.m = 0 THEN DecZero
    ELSE IF a.e > 0 /\ a.m % 10 = 0 THEN normalize(Dec(a.m \div 10, a.e - 1))
    ELSE a

\* Decimal::round_dp(dp): at most dp fractional digits, ties to even.
round_dp(a, dp) ==
    IF a.e <= dp THEN a
    ELSE LET p    == Pow10(a.e - dp)
             q    == Abs(a.m) \div p
             r    == Abs(a.m) % p
             up   == 2 * r > p \/ (2 * r = p /\ q % 2 = 1)
             sign == IF a.m < 0 THEN -1 ELSE 1
         IN  Dec(sign * (IF up THEN q + 1 ELSE q), dp)

\* -------------------------------------------------------------------- JSON

JInt(n)   == [t |-> "int",   n |-> n, s |-> << >>]
JFloat(s) == [t |-> "float", n |-> 0, s |-> s]
JStr(s)   == [t |-> "str",   n |-> 0, s |-> s]
JNull     == [t |-> "null",  n |-> 0, s |-> << >>]

\* serde_json::Value::as_i64: Some only for an integer number.
as_i64(v) == [some |-> v.t = "int", n |-> v.n]

\* serde_json::Value::as_str: Some only for a string.
as_str(v) == [some |-> v.t = "str", s |-> v.s]

\* str::parse of the close price: the text must be a number.
parse_price(s) ==
    IF Len(s) = 2 /\ s[2] >= 0
    THEN [ok |-> TRUE, price |-> Dec(s[1], s[2])]
    ELSE [ok |-> FALSE, price |-> DecZero]

\* ------------------------------------------------------------- PriceClient

PriceErr == [ok |-> FALSE, price |-> DecZero]

\* UNIX time in milliseconds, then "rounded down to the nearest minute" by
\* i64 division and multiplication.
StartTimeMs(ts) ==
    LET time_ms == ts * MsPerSecond
    IN  TruncDiv(time_ms, MsPerMinute) * MsPerMinute

\* extract_price_from_payload without the comparison of the returned open
\* time with the requested one.
extract_price_any_time(payload, start_time_ms) ==
    IF payload = << >> THEN PriceErr
    ELSE IF Len(payload[1]) # KLINE_FIELDS_NUM THEN PriceErr
    ELSE LET returned_time_ms == as_i64(payload[1][1])
             price_str        == as_str(payload[1][5])
         IN  IF ~returned_time_ms.some THEN PriceErr
             ELSE IF ~price_str.some THEN PriceErr
             ELSE parse_price(price_str.s)

extract_price_from_payload(payload, start_time_ms) ==
    IF payload = << >> THEN PriceErr
    ELSE IF Len(payload[1]) # KLINE_FIELDS_NUM THEN PriceErr
    ELSE LET returned_time_ms == as_i64(payload[1][1])
             price_str        == as_str(payload[1][5])
         IN  IF ~returned_time_ms.some THEN PriceErr
             ELSE IF returned_time_ms.n # start_time_ms THEN PriceErr
             ELSE IF ~price_str.some THEN PriceErr
             ELSE parse_price(price_str.s)

\* serde_json::from_str::<Vec<Vec<Value>>>(body), then the payload check.
extract_price_from_body(body, start_time_ms) ==
    IF ~body.json THEN PriceErr
    ELSE extract_price_from_payload(body.payload, start_time_ms)

\* StatusCode::is_success
is_success(status) == status \in 200..299

\* PriceOfResponse without the look at the status.
PriceOfAnyStatus(res, start_time_ms) ==
    IF ~res.sent THEN PriceErr
    ELSE IF ~res.text THEN PriceErr
    ELSE extract_price_from_body(res.body, start_time_ms)

\* PriceClient::price from the response on: send()?, text(), the status.
PriceOfResponse(res, start_time_ms) ==
    IF ~res.sent THEN PriceErr
    ELSE IF ~res.text THEN PriceErr
    ELSE IF is_success(res.status)
         THEN extract_price_from_body(res.body, start_time_ms)
         ELSE PriceErr

\* The GET request PriceClient::price builds.
KlinesRequest(symbol, start_time_ms) ==
    [path |-> "/api/v3/klines", symbol |-> symbol, interval |-> "1m",
     startTime |-> start_time_ms, limit |-> 1]

\* ------------------------------------------------------------------ inputs

\* Date column texts: a full date and time (the last second of its minute),
\* the same minute without seconds, a bare date, an instant before 1970, and
\* a text no format accepts (the empty string).
DateStrs ==
    { <<1, 17, 53, 59>>, <<1, 17, 53>>, <<1>>, <<-1, 23, 59, 30>>, << >> }

\* Value column texts: "3", "1.5", "0" and a text that is not a number.
ValueStrs == { <<3, 0>>, <<15, 1>>, <<0, 0>>, << >> }

\* Header rows: the two columns after a third, and one with no Value.
Headers ==
    { <<"Block", VALUE_COLUMN, DATE_COLUMN>>,
      <<DATE_COLUMN, "Amount">> }

\* The data rows a file may hold under header row h: every pair of a date and
\* a value text in h's columns, and a row that is one field short.
Position(h, name) ==
    IF \E i \in 1..Len(h) : h[i] = name
    THEN CHOOSE i \in 1..Len(h) : h[i] = name /\ \A j \in 1..(i - 1) : h[j] # name
    ELSE 0

RowsUnder(h) ==
    { [i \in 1..Len(h) |->
          IF h[i] = DATE_COLUMN THEN d
          ELSE IF h[i] = VALUE_COLUMN THEN v
          ELSE <<7>>] : d \in DateStrs, v \in ValueStrs }
    \cup { [i \in 1..(Len(h) - 1) |-> <<1>>] }

RECURSIVE SeqsUpTo(_, _)
SeqsUpTo(S, n) ==
    IF n = 0 THEN { << >> }
    ELSE LET shorter == SeqsUpTo(S, n - 1)
         IN  shorter \cup { Append(q, x) : q \in { r \in shorter : Len(r) = n - 1 }, x \in S }

Files(h) == SeqsUpTo(RowsUnder(h), MaxRows)

None == [some |-> FALSE, ts |-> 0]
Some(ts) == [some |-> TRUE, ts |-> ts]

\* --begin / --end as clap parsed them: absent, or an instant.
Begins == { None, Some(datetime_from_utc_string(<<1>>).ts) }
Ends   == { None, Some(datetime_from_utc_string(<<1, 17, 53>>).ts) }

\* A kline record: open time, four price strings (the fifth field is the
\* close price), and the seven remaining fields.
Kline(open_time, close) ==
    << open_time, JStr(<<1, 0>>), JStr(<<1, 0>>), JStr(<<1, 0>>), close,
       JStr(<<9, 0>>), JInt(0), JStr(<<9, 0>>), JInt(1), JStr(<<9, 0>>),
       JStr(<<9, 0>>), JStr(<<0, 0>>) >>

Response(sent, status, text, json, payload) ==
    [sent |-> sent, status |-> status, text |-> text,
     body |-> [json |-> json, payload |-> payload]]

\* Close price texts the exchange may return: "2" and "2.5".
PriceStrs == { <<2, 0>>, <<25, 1>> }

\* What may come back for a request that asked for start_time_ms.
Responses(start_time_ms) ==
    LET good == Kline(JInt(start_time_ms), JStr(<<2, 0>>))
    IN  { Response(TRUE, 200, TRUE, TRUE, << Kline(JInt(start_time_ms), JStr(p)) >>) :
              p \in PriceStrs }
        \cup
        { Response(FALSE, 0, FALSE, FALSE, << >>),          \* send() failed
          Response(TRUE, 200, FALSE, FALSE, << >>),         \* text() failed
          Response(TRUE, 404, TRUE, TRUE, << good >>),      \* error status
          Response(TRUE, 200, TRUE, FALSE, << >>),          \* not Vec<Vec<Value>>
          Response(TRUE, 200, TRUE, TRUE, << >>),           \* no kline
          Response(TRUE, 200, TRUE, TRUE, << SubSeq(good, 1, 11) >>),
          Response(TRUE, 200, TRUE, TRUE, << Append(good, JNull) >>),
          Response(TRUE, 200, TRUE, TRUE, << good, << JNull >> >>),
          Response(TRUE, 200, TRUE, TRUE,
                   << Kline(JStr(<<start_time_ms, 0>>), JStr(<<2, 0>>)) >>),
          Response(TRUE, 200, TRUE, TRUE,
                   << Kline(JInt(start_time_ms - MsPerMinute), JStr(<<2, 0>>)) >>),
          Response(TRUE, 200, TRUE, TRUE,
                   << Kline(JInt(start_time_ms), JFloat(<<25, 1>>)) >>),
          Response(TRUE, 200, TRUE, TRUE,
                   << Kline(JInt(start_time_ms), JStr(<< >>)) >>) }

\* -------------------------------------------------------------------- main

InputEntry(datetime, value) == [datetime |-> datetime, value |-> value]

\* The loop of read_input over reader.records(). A record whose field count
\* differs from the header's is an error of the (non-flexible) csv reader.
RECURSIVE ReadRecords(_, _, _, _, _)
ReadRecords(headers, records, date_column, value_column, entries) ==
    IF records = << >> THEN [ok |-> TRUE, entries |-> entries]
    ELSE LET record      == Head(records)
             min_columns == Max(date_column, value_column)
         IN  IF Len(record) # Len(headers) THEN [ok |-> FALSE, entries |-> << >>]
             ELSE IF Len(record) < min_columns THEN [ok |-> FALSE, entries |-> << >>]
             ELSE LET value == from_str_exact(record[value_column])
                  IN  IF ~value.ok THEN [ok |-> FALSE, entries |-> << >>]
                      ELSE ReadRecords(headers, Tail(records), date_column, value_column,
                                       Append(entries,
                                              InputEntry(record[date_column], value.d)))

read_input(headers, records) ==
    LET date_column  == Position(headers, DATE_COLUMN)
        value_column == Position(headers, VALUE_COLUMN)
    IN  IF date_column = 0 THEN [ok |-> FALSE, entries |-> << >>]
        ELSE IF value_column = 0 THEN [ok |-> FALSE, entries |-> << >>]
        ELSE ReadRecords(headers, records, date_column, value_column, << >>)

\* filter_range with an inclusive end.
RECURSIVE FilterLoopEndInclusive(_, _, _, _)
FilterLoopEndInclusive(input, begin, end, output) ==
    IF input = << >> THEN [ok |-> TRUE, entries |-> output]
    ELSE LET entry    == Head(input)
             datetime == datetime_from_utc_string(entry.datetime)
         IN  IF ~datetime.ok THEN [ok |-> FALSE, entries |-> << >>]
             ELSE IF begin.some /\ datetime.ts < begin.ts
                  THEN FilterLoopEndInclusive(Tail(input), begin, end, output)
             ELSE IF end.some /\ datetime.ts > end.ts
                  THEN FilterLoopEndInclusive(Tail(input), begin, end, output)
             ELSE FilterLoopEndInclusive(Tail(input), begin, end, Append(output, entry))

\* filter_range dropping an entry whose date does not parse.
RECURSIVE FilterLoopSkipsBadDate(_, _, _, _)
FilterLoopSkipsBadDate(input, begin, end, output) ==
    IF input = << >> THEN [ok |-> TRUE, entries |-> output]
    ELSE LET entry    == Head(input)
             datetime == datetime_from_utc_string(entry.datetime)
         IN  IF ~datetime.ok
                  THEN FilterLoopSkipsBadDate(Tail(input), begin, end, output)
             ELSE IF begin.some /\ datetime.ts < begin.ts
                  THEN FilterLoopSkipsBadDate(Tail(input), begin, end, output)
             ELSE IF end.some /\ datetime.ts >= end.ts
                  THEN FilterLoopSkipsBadDate(Tail(input), begin, end, output)
             ELSE FilterLoopSkipsBadDate(Tail(input), begin, end, Append(output, entry))

RECURSIVE FilterLoop(_, _, _, _)
FilterLoop(input, begin, end, output) ==
    IF input = << >> THEN [ok |-> TRUE, entries |-> output]
    ELSE LET entry    == Head(input)
             datetime == datetime_from_utc_string(entry.datetime)
         IN  IF ~datetime.ok THEN [ok |-> FALSE, entries |-> << >>]
             ELSE IF begin.some /\ datetime.ts < begin.ts
                  THEN FilterLoop(Tail(input), begin, end, output)
             ELSE IF end.some /\ datetime.ts >= end.ts
                  THEN FilterLoop(Tail(input), begin, end, output)
             ELSE FilterLoop(Tail(input), begin, end, Append(output, entry))

filter_range(input, begin, end) == FilterLoop(input, begin, end, << >>)

\* OutputEntry with the rate in place of the gain.
OutputEntryGainIsRate(entry, conversion) ==
    [datetime   |-> entry.datetime,
     value      |-> entry.value,
     conversion |-> conversion,
     fiat_gain  |-> conversion]

\* OutputEntry with the date rendered anew from the parsed instant.
OutputEntryFormatsDate(entry, conversion) ==
    [datetime   |-> into_human(datetime_from_utc_string(entry.datetime).ts),
     value      |-> entry.value,
     conversion |-> conversion,
     fiat_gain  |-> DecMul(entry.value, conversion)]

OutputEntry(entry, conversion) ==
    [datetime   |-> entry.datetime,
     value      |-> entry.value,
     conversion |-> conversion,
     fiat_gain  |-> DecMul(entry.value, conversion)]

RECURSIVE FoldValue(_, _)
FoldValue(report, acc) ==
    IF report = << >> THEN acc
    ELSE FoldValue(Tail(report), DecAdd(acc, Head(report).value))

RECURSIVE FoldFiatGain(_, _)
FoldFiatGain(report, acc) ==
    IF report = << >> THEN acc
    ELSE FoldFiatGain(Tail(report), DecAdd(acc, Head(report).fiat_gain))

RECURSIVE FoldConversion(_, _)
FoldConversion(report, acc) ==
    IF report = << >> THEN acc
    ELSE FoldConversion(Tail(report), DecAdd(acc, Head(report).conversion))

\* calculate_totals with the plain mean of the rows' rates as the average.
calculate_totals_mean_rate(report) ==
    LET total_value     == FoldValue(report, DecZero)
        total_fiat_gain == FoldFiatGain(report, DecZero)
        avg_conversion  == IF ~DecIsZero(total_value)
                           THEN DecDiv(FoldConversion(report, DecZero),
                                       Dec(Len(report), 0))
                           ELSE DecZero
    IN  [total_value     |-> total_value,
         avg_conversion  |-> avg_conversion,
         total_fiat_gain |-> total_fiat_gain]

calculate_totals(report) ==
    LET total_value     == FoldValue(report, DecZero)
        total_fiat_gain == FoldFiatGain(report, DecZero)
        avg_conversion  == IF ~DecIsZero(total_value)
                           THEN DecDiv(total_fiat_gain, total_value)
                           ELSE DecZero
    IN  [total_value     |-> total_value,
         avg_conversion  |-> avg_conversion,
         total_fiat_gain |-> total_fiat_gain]

\* The file write_output leaves when every write succeeds.
ReportLine(entry) ==
    << entry.datetime, normalize(entry.value), normalize(entry.conversion),
       normalize(entry.fiat_gain) >>

TotalsLine(totals) ==
    LET total_value     == normalize(totals.total_value)
        total_fiat_gain == normalize(totals.total_fiat_gain)
        max_decimals    == Max(Max(total_value.e, total_fiat_gain.e),
                               AVG_PRICE_MIN_DECIMALS)
        avg_conversion  == normalize(round_dp(totals.avg_conversion, max_decimals))
    IN  << total_value, avg_conversion, total_fiat_gain >>

write_output(report, totals, symbol) ==
    [exists |-> TRUE,
     header |-> << DATE_COLUMN, VALUE_COLUMN, symbol, FIAT_GAIN_COLUMN >>,
     lines  |-> [k \in 1..Len(report) |-> ReportLine(report[k])],
     total  |-> TotalsLine(totals)]

NoFile == [exists |-> FALSE, header |-> << >>, lines |-> << >>, total |-> << >>]

NoTotals == [total_value |-> DecZero, avg_conversion |-> DecZero,
             total_fiat_gain |-> DecZero]

\* ------------------------------------------------------------------- state

VARIABLES
    pc,         \* where main() stands
    begin,      \* args.begin
    end,        \* args.end
    headers,    \* the input file's header row
    records,    \* the input file's data rows
    input,      \* main's input
    data,       \* main's data
    idx,        \* process: the entry the loop is at (from 1)
    output,     \* process: its output vector
    inflight,   \* requests sent and not yet answered
    requests,   \* every request sent, in order
    lookups,    \* every answer received, with what price() made of it
    report,     \* main's report
    totals,     \* main's totals
    file,       \* the output file
    failed_in   \* the step whose error ended the run, or "none"

vars == << pc, begin, end, headers, records, input, data, idx, output, inflight,
           requests, lookups, report, totals, file, failed_in >>

Init ==
    /\ pc = "read_input"
    /\ begin \in Begins
    /\ end \in Ends
    /\ headers = << >>
    /\ records = << >>
    /\ input = << >>
    /\ data = << >>
    /\ idx = 1
    /\ output = << >>
    /\ inflight = {}
    /\ requests = << >>
    /\ lookups = << >>
    /\ report = << >>
    /\ totals = NoTotals
    /\ file = NoFile
    /\ failed_in = "none"

\* main: let input = read_input(&args.input)?;
ReadInput ==
    /\ pc = "read_input"
    /\ \E h \in Headers : \E recs \in Files(h) :
          LET res == read_input(h, recs)
          IN  /\ headers' = h
              /\ records' = recs
              /\ input' = res.entries
              /\ pc' = IF res.ok THEN "filter_range" ELSE "failed"
              /\ failed_in' = IF res.ok THEN "none" ELSE "read_input"
    /\ UNCHANGED << begin, end, data, idx, output, inflight, requests, lookups,
                    report, totals, file >>

\* main: let data = filter_range(input, args.begin, args.end)?;
FilterRange ==
    /\ pc = "filter_range"
    /\ LET res == filter_range(input, begin, end)
       IN  /\ data' = res.entries
           /\ pc' = IF res.ok THEN "process" ELSE "failed"
           /\ failed_in' = IF res.ok THEN "none" ELSE "filter_range"
    /\ UNCHANGED << begin, end, headers, records, input, idx, output, inflight,
                    requests, lookups, report, totals, file >>

\* process, one iteration up to client.get(&url).send(): the date is parsed
\* again and the request for its minute goes out.
PriceRequest ==
    /\ pc = "process"
    /\ idx <= Len(data)
    /\ LET entry    == data[idx]
           datetime == datetime_from_utc_string(entry.datetime)
           req      == KlinesRequest(SYMBOL, StartTimeMs(datetime.ts))
       IN  IF datetime.ok
           THEN /\ inflight' = inflight \cup { [entry |-> idx, req |-> req] }
                /\ requests' = Append(requests,
                                      [entry |-> idx, ts |-> datetime.ts, req |-> req])
                /\ pc' = "price"
                /\ failed_in' = failed_in
           ELSE /\ pc' = "failed"
                /\ failed_in' = "process"
                /\ UNCHANGED << inflight, requests >>
    /\ UNCHANGED << begin, end, headers, records, input, data, idx, output, lookups,
                    report, totals, file >>

\* PriceResponse leaving out the entry whose lookup failed and going on.
PriceResponseSkipsFailure ==
    /\ pc = "price"
    /\ \E r \in inflight : \E res \in Responses(r.req.startTime) :
          LET conversion == PriceOfResponse(res, r.req.startTime)
          IN  /\ inflight' = inflight \ { r }
              /\ lookups' = Append(lookups,
                                   [entry |-> r.entry, req |-> r.req, res |-> res,
                                    ok |-> conversion.ok, price |-> conversion.price])
              /\ output' = IF conversion.ok
                           THEN Append(output,
                                       OutputEntry(data[r.entry], conversion.price))
                           ELSE output
              /\ idx' = idx + 1
              /\ pc' = "process"
              /\ failed_in' = failed_in
    /\ UNCHANGED << begin, end, headers, records, input, data, requests, report,
                    totals, file >>

\* PriceResponse asking again for the entry whose lookup failed.
PriceResponseRetries ==
    /\ pc = "price"
    /\ \E r \in inflight : \E res \in Responses(r.req.startTime) :
          LET conversion == PriceOfResponse(res, r.req.startTime)
          IN  /\ inflight' = inflight \ { r }
              /\ lookups' = Append(lookups,
                                   [entry |-> r.entry, req |-> r.req, res |-> res,
                                    ok |-> conversion.ok, price |-> conversion.price])
              /\ output' = IF conversion.ok
                           THEN Append(output,
                                       OutputEntry(data[r.entry], conversion.price))
                           ELSE output
              /\ idx' = IF conversion.ok THEN idx + 1 ELSE idx
              /\ pc' = "process"
              /\ failed_in' = failed_in
    /\ UNCHANGED << begin, end, headers, records, input, data, requests, report,
                    totals, file >>

\* process, the rest of the iteration: price() judges the response; the row
\* is pushed and the loop moves on, or the error ends process.
PriceResponse ==
    /\ pc = "price"
    /\ \E r \in inflight : \E res \in Responses(r.req.startTime) :
          LET conversion == PriceOfResponse(res, r.req.startTime)
          IN  /\ inflight' = inflight \ { r }
              /\ lookups' = Append(lookups,
                                   [entry |-> r.entry, req |-> r.req, res |-> res,
                                    ok |-> conversion.ok, price |-> conversion.price])
              /\ IF conversion.ok
                 THEN /\ output' = Append(output,
                                          OutputEntry(data[r.entry], conversion.price))
                      /\ idx' = idx + 1
                      /\ pc' = "process"
                      /\ failed_in' = failed_in
                 ELSE /\ pc' = "failed"
                      /\ failed_in' = "process"
                      /\ UNCHANGED << output, idx >>
    /\ UNCHANGED << begin, end, headers, records, input, data, requests, report,
                    totals, file >>

\* process: the loop is over, Ok(output); main: let report = ...
ProcessReturn ==
    /\ pc = "process"
    /\ idx > Len(data)
    /\ report' = output
    /\ pc' = "calculate_totals"
    /\ UNCHANGED << begin, end, headers, records, input, data, idx, output, inflight,
                    requests, lookups, totals, file, failed_in >>

\* main: let totals = calculate_totals(&report);
CalculateTotals ==
    /\ pc = "calculate_totals"
    /\ totals' = calculate_totals(report)
    /\ pc' = "write_output"
    /\ UNCHANGED << begin, end, headers, records, input, data, idx, output, inflight,
                    requests, lookups, report, file, failed_in >>

\* main: write_output(report, totals, &args.convert, &args.output)?;
\* File::create may fail, and then there is no file.
WriteOutput ==
    /\ pc = "write_output"
    /\ \E created \in BOOLEAN :
          /\ file' = IF created THEN write_output(report, totals, SYMBOL) ELSE NoFile
          /\ pc' = IF created THEN "done" ELSE "failed"
          /\ failed_in' = IF created THEN "none" ELSE "write_output"
    /\ UNCHANGED << begin, end, headers, records, input, data, idx, output, inflight,
                    requests, lookups, report, totals >>

Next ==
    \/ ReadInput
    \/ FilterRange
    \/ PriceRequest
    \/ PriceResponse
    \/ ProcessReturn
    \/ CalculateTotals
    \/ WriteOutput

Spec == Init /\ [][Next]_vars

\* ------------------------------------------------------------- definitions
\* used by the properties

\* Where main() stands relative to its steps.
FilterReturned ==
    \/ pc \in { "process", "price", "calculate_totals", "write_output", "done" }
    \/ pc = "failed" /\ failed_in \in { "process", "write_output" }

ProcessReturned ==
    \/ pc \in { "calculate_totals", "write_output", "done" }
    \/ pc = "failed" /\ failed_in = "write_output"

TotalsCalculated ==
    \/ pc \in { "write_output", "done" }
    \/ pc = "failed" /\ failed_in = "write_output"

\* d in units of 10^-e (e at least d's scale).
Units(d, e) == d.m * Pow10(e - d.e)

RECURSIVE SumUnits(_, _)
SumUnits(ds, e) ==
    IF ds = << >> THEN 0 ELSE Units(Head(ds), e) + SumUnits(Tail(ds), e)

RECURSIVE MaxScale(_)
MaxScale(ds) ==
    IF ds = << >> THEN 0 ELSE Max(Head(ds).e, MaxScale(Tail(ds)))

\* The first kline's open time and close price as the response carries them.
HasFirstKline(res) ==
    res.body.payload # << >> /\ Len(res.body.payload[1]) = KLINE_FIELDS_NUM

\* The instant of a date text, and whether the window begin..end keeps it.
InstantOf(text) == datetime_from_utc_string(text).ts

InWindow(ts) ==
    /\ (begin.some => ts >= begin.ts)
    /\ (end.some => ts < end.ts)

EntryKept(entry) == InWindow(InstantOf(entry.datetime))

\* ------------------------------------------------------------------ claims

\* C1: price() returns a price only when the first kline's open time (field
\* 0) is the integer equal to the start time that was requested; a response
\* whose open time differs from it never yields a price.
C1_PriceOnlyForRequestedMinute ==
    \A k \in 1..Len(lookups) :
        LET l == lookups[k]
        IN  /\ l.ok => /\ l.res.body.payload # << >>
                       /\ l.res.body.payload[1] # << >>
                       /\ l.res.body.payload[1][1] = JInt(l.req.startTime)
            /\ ( /\ HasFirstKline(l.res)
                 /\ l.res.body.payload[1][1] # JInt(l.req.startTime) ) => ~l.ok

\* C1 witness: a well-formed kline for the minute before the requested one
\* came back with a success status, and the lookup failed.
C1_Witness ==
    \E k \in 1..Len(lookups) :
        LET l == lookups[k]
        IN  /\ is_success(l.res.status)
            /\ HasFirstKline(l.res)
            /\ l.res.body.payload[1][1] = JInt(l.req.startTime - MsPerMinute)
            /\ l.res.body.payload[1][5] = JStr(<<2, 0>>)
            /\ ~l.ok

\* C2: when reading a row, parsing a date or any price lookup fails, no
\* output file is created: a file exists only if every row was read, every
\* date parsed and every surviving entry's lookup succeeded.
C2_NoFileAfterFailure ==
    /\ failed_in \in { "read_input", "filter_range", "process" } => ~file.exists
    /\ file.exists =>
          /\ Position(headers, DATE_COLUMN) # 0
          /\ Position(headers, VALUE_COLUMN) # 0
          /\ \A i \in 1..Len(records) :
                /\ Len(records[i]) = Len(headers)
                /\ from_str_exact(records[i][Position(headers, VALUE_COLUMN)]).ok
                /\ datetime_from_utc_string(
                       records[i][Position(headers, DATE_COLUMN)]).ok
          /\ Len(lookups) = Len(data)
          /\ \A k \in 1..Len(lookups) : lookups[k].ok
          /\ Len(file.lines) = Len(data)

\* C2 witness: the first lookup succeeded, the second failed, the run is
\* over and there is no file.
C2_Witness ==
    /\ pc = "failed"
    /\ Len(lookups) = 2
    /\ lookups[1].ok
    /\ ~lookups[2].ok
    /\ ~file.exists

\* C3: the start time of every request is floor(unixSeconds / 60) * 60 * 1000,
\* the start of the minute that contains the instant.
C3_StartIsMinuteFloor ==
    \A k \in 1..Len(requests) :
        LET r == requests[k]
        IN  /\ r.req.startTime = (r.ts \div 60) * MsPerMinute
            /\ r.req.startTime <= r.ts * MsPerSecond
            /\ r.ts * MsPerSecond < r.req.startTime + MsPerMinute

\* C4: filter_range keeps exactly the entries with begin <= timestamp < end
\* (each bound only if given), in the input's order and unchanged.
C4_FilterKeepsWindow ==
    FilterReturned => data = SelectSeq(input, EntryKept)

\* C4 witness: with both bounds given, an entry at begin was kept and an
\* entry at end was dropped.
C4_Witness ==
    /\ FilterReturned
    /\ begin.some
    /\ end.some
    /\ \E i \in 1..Len(input) : InstantOf(input[i].datetime) = end.ts
    /\ \E k \in 1..Len(data) : InstantOf(data[k].datetime) = begin.ts
    /\ Len(data) < Len(input)

\* C5: the totals are the sums of the rows' amounts and gains; the average
\* rate is the gain total divided by the amount total (to the quotient's
\* last digit), and zero when the amount total is zero.
C5_Totals ==
    TotalsCalculated =>
        LET values == [k \in 1..Len(report) |-> report[k].value]
            gains  == [k \in 1..Len(report) |-> report[k].fiat_gain]
            ev     == Max(MaxScale(values), totals.total_value.e)
            eg     == Max(MaxScale(gains), totals.total_fiat_gain.e)
            T      == normalize(totals.total_value)
            F      == normalize(totals.total_fiat_gain)
            A      == totals.avg_conversion
            diff   == Abs(A.m * T.m * Pow10(F.e) - F.m * Pow10(A.e + T.e))
        IN  /\ Units(totals.total_value, ev) = SumUnits(values, ev)
            /\ Units(totals.total_fiat_gain, eg) = SumUnits(gains, eg)
            /\ T.m = 0 => A.m = 0
            /\ T.m # 0 =>
                  /\ diff # 0 => A.e >= DivDigits
                  /\ 2 * diff * Pow10(DivDigits) <= Abs(T.m) * Pow10(A.e + F.e)

\* C5 witness: two rows with different amounts and rates, whose average is
\* a rounded quotient and not the mean of the two rates.
C5_Witness ==
    /\ pc = "write_output"
    /\ Len(report) = 2
    /\ report[1].conversion # report[2].conversion
    /\ report[1].value # report[2].value
    /\ totals.avg_conversion.e = DivDigits
    /\ 2 * Units(totals.avg_conversion, DivDigits)
          # Units(report[1].conversion, DivDigits)
              + Units(report[2].conversion, DivDigits)

\* C6: requests go out one per surviving entry, in input order, at most one
\* outstanding; none is repeated, and none follows a failed lookup.
C6_OneRequestPerEntry ==
    /\ Cardinality(inflight) <= 1
    /\ Len(requests) = Len(lookups) + Cardinality(inflight)
    /\ Len(requests) <= Len(data)
    /\ \A k \in 1..Len(requests) : requests[k].entry = k
    /\ \A k \in 1..Len(lookups) :
          /\ lookups[k].entry = k
          /\ ~lookups[k].ok => Len(requests) = k
    /\ ProcessReturned => Len(requests) = Len(data)

\* C6 witness: two entries survived, the lookup for the first failed, and
\* the run ended with that one request sent.
C6_Witness ==
    /\ pc = "failed"
    /\ Len(data) = 2
    /\ Len(requests) = 1
    /\ Len(lookups) = 1
    /\ ~lookups[1].ok

C8_RowPerEntry ==
    ProcessReturned =>
        /\ Len(report) = Len(data)
        /\ Len(lookups) = Len(data)
        /\ \A k \in 1..Len(report) :
              LET row == report[k]
              IN  /\ row.datetime = data[k].datetime
                  /\ row.value = data[k].value
                  /\ requests[k].ts = InstantOf(data[k].datetime)
                  /\ lookups[k].req = requests[k].req
                  /\ lookups[k].ok
                  /\ row.conversion = lookups[k].price
                  /\ row.fiat_gain.m * Pow10(row.value.e + row.conversion.e)
                        = row.value.m * row.conversion.m * Pow10(row.fiat_gain.e)

\* C8 witness: process returned two rows with different rates and non-zero
\* amounts.
C8_Witness ==
    /\ pc = "calculate_totals"
    /\ Len(report) = 2
    /\ report[1].conversion # report[2].conversion
    /\ report[1].value.m # 0
    /\ report[2].value.m # 0

\* C9 as stated: every data row of the file carries its date in the
\* formatter's canonical form, whatever the form of the input.
C9_DatesCanonical ==
    file.exists =>
        /\ Len(file.lines) = Len(data)
        /\ \A k \in 1..Len(file.lines) :
              file.lines[k][1] = into_human(InstantOf(data[k].datetime))

\* C9 amended: every data row of the file carries the date text of its
\* entry exactly as the input gave it.
C9_DatesAsGiven ==
    file.exists =>
        /\ Len(file.lines) = Len(data)
        /\ \A k \in 1..Len(file.lines) :
              file.lines[k][1] = data[k].datetime
        /\ \A k \in 1..Len(file.lines) :
              \E i \in 1..Len(records) :
                  file.lines[k][1] = records[i][Position(headers, DATE_COLUMN)]

\* C9 witness: a file whose first row carries a bare date and whose second
\* carries a date without seconds.
C9_Witness ==
    /\ file.exists
    /\ Len(file.lines) = 2
    /\ Len(file.lines[1][1]) = 1
    /\ Len(file.lines[2][1]) = 3

\* C10: a request is sent only after every input row was read and its date
\* parsed, and only for entries inside the window: no request is caused by
\* a discarded entry, and none is sent when any row is unparseable.
C10_RequestsOnlyForSurvivors ==
    requests # << >> =>
        LET dc   == Position(headers, DATE_COLUMN)
            vc   == Position(headers, VALUE_COLUMN)
            kept == { i \in 1..Len(records) : InWindow(InstantOf(records[i][dc])) }
        IN  /\ dc # 0
            /\ vc # 0
            /\ \A i \in 1..Len(records) :
                  /\ Len(records[i]) = Len(headers)
                  /\ from_str_exact(records[i][vc]).ok
                  /\ datetime_from_utc_string(records[i][dc]).ok
            /\ Len(requests) <= Cardinality(kept)
            /\ \A k \in 1..Len(requests) :
                  \E i \in kept :
                      /\ Cardinality({ j \in kept : j < i }) = k - 1
                      /\ requests[k].ts = InstantOf(records[i][dc])
                      /\ InWindow(requests[k].ts)

\* C10 witness: of two rows one was outside the window, and the one request
\* that was sent is for the other.
C10_Witness ==
    /\ Len(records) = 2
    /\ Len(data) = 1
    /\ Len(requests) = 1
    /\ ~InWindow(InstantOf(records[1][Position(headers, DATE_COLUMN)]))

====
